---- MODULE Spec2Model ----
(***************************************************************************)
(* A model of package glicko (treepeck/glicko), three revisions of which   *)
(* are kept side by side in the sources:                                   *)
(*   r1  src/glicko.go:1-181       EvaluatePlayer over a list of outcomes  *)
(*   r2  src/unnamed/part_001      Estimator.Estimate over a list          *)
(*   r3  src/glicko.go:183-414     Estimator.Estimate over one outcome     *)
(*                                                                         *)
(* A float64 is modelled bit for bit: +, -, *, / and math.Sqrt round the   *)
(* exact result to the nearest float64 (ties to even), with subnormal      *)
(* numbers, signed zeros, infinities and NaN; math.Exp and math.Log are    *)
(* the algorithms of Go's math package (exp.go, log.go), operation by      *)
(* operation.  The operations are functions, written Add[a, b]: an operand *)
(* is evaluated once, as in the program.                                   *)
(***************************************************************************)
EXTENDS Integers, Sequences, FiniteSets

(***************************************************************************)
(* float64: IEEE 754 binary64 with rounding to nearest, ties to even.      *)
(* The significand is kept in two halves because the integers of the model *)
(* checker have 32 bits.                                                   *)
(***************************************************************************)
\* 2^28: a significand of 53 bits is held in two halves, hi * W + lo.
W == 268435456

\* A float64: (-1)^sign * (hi * W + lo) * 2^exp.  A normal value has
\* 2^24 <= hi < 2^25 and -1074 <= exp <= 971; a subnormal value and zero have
\* exp = -1074 and hi < 2^24; exp = 1024 marks an infinity (hi = 0) or NaN
\* (hi = 1).
Float == [sign : {0, 1}, exp : Int, hi : Nat, lo : Nat]

Bits(sg, e, h, l) == [sign |-> sg, exp |-> e, hi |-> h, lo |-> l]

Zero == Bits(0, 0 - 1074, 0, 0)

One == Bits(0, 0 - 52, 16777216, 0)

Two == Bits(0, 0 - 51, 16777216, 0)

Half == Bits(0, 0 - 53, 16777216, 0)

NaN == Bits(0, 1024, 1, 0)

Inf(sg) == Bits(sg, 1024, 0, 0)

IsNaN(a) == a.exp = 1024 /\ a.hi # 0

IsInf(a) == a.exp = 1024 /\ a.hi = 0

IsZero(a) == a.exp # 1024 /\ a.hi = 0 /\ a.lo = 0

\* The number of bits of n.
BitLen[n \in Nat] ==
  IF n >= 65536 THEN 16 + BitLen[n \div 65536]
  ELSE IF n >= 256 THEN 8 + BitLen[n \div 256]
  ELSE IF n >= 16 THEN 4 + BitLen[n \div 16]
  ELSE IF n >= 4 THEN 2 + BitLen[n \div 4]
  ELSE IF n >= 2 THEN 2
  ELSE n

\* h * W + l moved k bits to the right (to the left when k < 0), as
\* <<h, l, lost>>: lost is 1 when a bit that fell off the right end was 1.
Shifted[h \in Nat, l \in Nat, k \in Int] ==
  IF k <= 0 - 28 THEN <<l * 2^(0 - k - 28), 0, 0>>
  ELSE IF k <= 0
    THEN <<h * 2^(0 - k) + l \div 2^(28 + k), (l % 2^(28 + k)) * 2^(0 - k), 0>>
  ELSE IF k < 28
    THEN <<h \div 2^k, (h % 2^k) * 2^(28 - k) + l \div 2^k,
           IF l % 2^k # 0 THEN 1 ELSE 0>>
  ELSE IF k < 56
    THEN <<0, h \div 2^(k - 28),
           IF h % 2^(k - 28) # 0 \/ l # 0 THEN 1 ELSE 0>>
  ELSE <<0, 0, IF h # 0 \/ l # 0 THEN 1 ELSE 0>>

\* The float64 of the rounded significand qh * W + ql <= 2^53 at exponent e.
Encode[sg \in {0, 1}, e \in Int, qh \in Nat, ql \in Nat] ==
  IF ql = W THEN Encode[sg, e, qh + 1, 0]
  ELSE IF qh = 33554432
    THEN (IF e + 1 > 971 THEN Inf(sg) ELSE Bits(sg, e + 1, 16777216, 0))
  ELSE IF qh = 0 /\ ql = 0 THEN Bits(sg, 0 - 1074, 0, 0)
  ELSE Bits(sg, e, qh, ql)

\* Round to nearest, ties to even: n holds the significand with one more bit
\* below it, and n[3] = 1 or st = 1 when a lower bit of the exact value is 1.
RoundUp[sg \in {0, 1}, e \in Int, n \in Seq(Nat), st \in {0, 1}] ==
  Encode[sg, e, n[1] \div 2,
         n[2] \div 2 + (n[1] % 2) * 134217728
         + (IF n[2] % 2 = 1 /\ (n[3] = 1 \/ st = 1 \/ (n[2] \div 2) % 2 = 1)
            THEN 1 ELSE 0)]

\* The value of bl bits (h * W + l) * 2^e cut to 53 bits, or to the bits
\* above 2^-1074 when it is subnormal.
Fit[sg \in {0, 1}, e \in Int, h, l, st, bl \in Nat] ==
  IF e + bl - 53 > 971 THEN Inf(sg)
  ELSE RoundUp[sg, IF e + bl - 53 >= 0 - 1074 THEN e + bl - 53 ELSE 0 - 1074,
               Shifted[h, l, IF e + bl - 53 >= 0 - 1074 THEN bl - 54
                             ELSE 0 - 1075 - e],
               st]

\* The float64 nearest to (-1)^sg * (h * W + l + t) * 2^e, where 0 < t < 1
\* when st = 1 and t = 0 otherwise.
Pack[sg \in {0, 1}, e \in Int, h \in Nat, l \in Nat, st \in {0, 1}] ==
  IF h = 0 /\ l = 0 THEN Bits(sg, 0 - 1074, 0, 0)
  ELSE Fit[sg, e, h, l, st,
           IF h > 0 THEN 28 + BitLen[h] ELSE BitLen[l]]

\* float64(n)
FromInt[n \in Int] ==
  Pack[IF n < 0 THEN 1 ELSE 0, 0, (IF n < 0 THEN 0 - n ELSE n) \div W,
       (IF n < 0 THEN 0 - n ELSE n) % W, 0]

\* -a
Neg[a \in Float] == IF IsNaN(a) THEN a ELSE Bits(1 - a.sign, a.exp, a.hi, a.lo)

\* math.Abs
Abs[a \in Float] == IF IsNaN(a) THEN a ELSE Bits(0, a.exp, a.hi, a.lo)

\* |a| < |b| for finite values
MagLt(a, b) ==
  \/ a.exp < b.exp
  \/ a.exp = b.exp /\ (a.hi < b.hi \/ (a.hi = b.hi /\ a.lo < b.lo))

\* A + B when same, A - B otherwise, for A >= B; B[3] = 1 says that B is
\* greater than B[1] * W + B[2] by less than 1.
Added[sg \in {0, 1}, e \in Int, same \in BOOLEAN, A, B \in Seq(Nat)] ==
  IF ~same /\ A[1] = B[1] /\ A[2] = B[2] THEN Zero
  ELSE Pack[sg, e,
            IF same THEN A[1] + B[1] + (A[2] + B[2]) \div W
            ELSE A[1] - B[1] - (IF A[2] < B[2] + B[3] THEN 1 ELSE 0),
            IF same THEN (A[2] + B[2]) % W
            ELSE (A[2] - B[2] - B[3] + W) % W,
            B[3]]

\* big + small for finite values, |big| >= |small|: small is brought to the
\* exponent of big, three bits being kept below it.
Aligned[big \in Float, small \in Float] ==
  Added[big.sign, big.exp - 3, big.sign = small.sign,
        <<big.hi * 8 + big.lo \div 33554432, (big.lo % 33554432) * 8>>,
        Shifted[small.hi, small.lo, big.exp - small.exp - 3]]

\* a + b
Add[a \in Float, b \in Float] ==
  IF IsNaN(a) \/ IsNaN(b) THEN NaN
  ELSE IF IsInf(a) THEN (IF IsInf(b) /\ b.sign # a.sign THEN NaN ELSE a)
  ELSE IF IsInf(b) THEN b
  ELSE Aligned[IF MagLt(a, b) THEN b ELSE a, IF MagLt(a, b) THEN a ELSE b]

\* a - b
Sub[a \in Float, b \in Float] == Add[a, Neg[b]]

\* A finite non-zero value with its significand brought to 53 bits, as
\* <<exp, hi, lo>>.
Nrm[e \in Int, h \in Nat, l \in Nat] ==
  IF h >= 16777216 THEN <<e, h, l>>
  ELSE Nrm[e - 1, 2 * h + (2 * l) \div W, (2 * l) % W]

\* The product of two significands from the sums c of the products of their
\* 14-bit parts: its bits from the 50th up, and whether a bit below is 1.
MulJoin[sg \in {0, 1}, e \in Int, c3, c4, c5, c6, low \in Nat] ==
  Pack[sg, e,
       (c6 \div 16384) * 1048576 + (c6 % 16384) * 64 + (c5 % 16384) \div 256,
       (c5 % 256) * 1048576 + (c4 % 16384) * 64 + (c3 % 16384) \div 256,
       IF low = 1 \/ c3 % 256 # 0 THEN 1 ELSE 0]

MulCarry[sg \in {0, 1}, e \in Int, c0, c1, c2, c3, c4, c5, c6 \in Nat] ==
  MulJoin[sg, e,
          c3 + (c2 + (c1 + c0 \div 16384) \div 16384) \div 16384,
          c4 + (c3 + (c2 + (c1 + c0 \div 16384) \div 16384) \div 16384)
               \div 16384,
          c5 + (c4 + (c3 + (c2 + (c1 + c0 \div 16384) \div 16384)
                      \div 16384) \div 16384) \div 16384,
          c6 + (c5 + (c4 + (c3 + (c2 + (c1 + c0 \div 16384) \div 16384)
                            \div 16384) \div 16384) \div 16384) \div 16384,
          IF c0 % 16384 # 0 \/ (c1 + c0 \div 16384) % 16384 # 0
             \/ (c2 + (c1 + c0 \div 16384) \div 16384) % 16384 # 0
          THEN 1 ELSE 0]

\* The product of two significands of 53 bits, each in four parts of 14 bits
\* from the top, times 2^(e - 50).
MulMag[sg \in {0, 1}, e \in Int, x \in Seq(Nat), y \in Seq(Nat)] ==
  MulCarry[sg, e,
           x[4] * y[4],
           x[4] * y[3] + x[3] * y[4],
           x[4] * y[2] + x[3] * y[3] + x[2] * y[4],
           x[4] * y[1] + x[3] * y[2] + x[2] * y[3] + x[1] * y[4],
           x[3] * y[1] + x[2] * y[2] + x[1] * y[3],
           x[2] * y[1] + x[1] * y[2],
           x[1] * y[1]]

\* The significand n[2] * W + n[3] of 53 bits in four parts of 14 bits.
Parts(n) == <<n[2] \div 16384, n[2] % 16384, n[3] \div 16384, n[3] % 16384>>

\* a * b
Mul[a \in Float, b \in Float] ==
  IF IsNaN(a) \/ IsNaN(b) THEN NaN
  ELSE IF IsInf(a) \/ IsInf(b)
    THEN (IF IsZero(a) \/ IsZero(b) THEN NaN ELSE Inf((a.sign + b.sign) % 2))
  ELSE IF IsZero(a) \/ IsZero(b)
    THEN Bits((a.sign + b.sign) % 2, 0 - 1074, 0, 0)
  ELSE MulMag[(a.sign + b.sign) % 2,
              Nrm[a.exp, a.hi, a.lo][1] + Nrm[b.exp, b.hi, b.lo][1] + 50,
              Parts(Nrm[a.exp, a.hi, a.lo]), Parts(Nrm[b.exp, b.hi, b.lo])]

\* func pow2(val float64) float64 { return val * val }
pow2[val \in Float] == Mul[val, val]

\* n more bits q of the quotient of r by b (two halves each), r < 2b: the
\* bits and what is left of r, as <<q, rh, rl>>.
DivBits[rh, rl, bh, bl, n, q \in Nat] ==
  IF n = 0 THEN <<q, rh, rl>>
  ELSE IF rh < bh \/ (rh = bh /\ rl < bl)
    THEN DivBits[2 * rh + (2 * rl) \div W, (2 * rl) % W, bh, bl, n - 1,
                 2 * q]
  ELSE IF rl < bl
    THEN DivBits[2 * (rh - bh - 1) + (2 * (rl - bl + W)) \div W,
                 (2 * (rl - bl + W)) % W, bh, bl, n - 1, 2 * q + 1]
  ELSE DivBits[2 * (rh - bh) + (2 * (rl - bl)) \div W,
               (2 * (rl - bl)) % W, bh, bl, n - 1, 2 * q + 1]

\* The 56 bits of the quotient are taken in two runs of 28; what is left of
\* the dividend after them makes the value inexact.
DivLow[sg \in {0, 1}, e \in Int, qh \in Nat, low \in Seq(Nat)] ==
  Pack[sg, e, qh, low[1], IF low[2] # 0 \/ low[3] # 0 THEN 1 ELSE 0]

DivTop[sg \in {0, 1}, e \in Int, top \in Seq(Nat), y \in Seq(Int)] ==
  DivLow[sg, e, top[1], DivBits[top[2], top[3], y[2], y[3], 28, 0]]

\* a / b
Quo[a \in Float, b \in Float] ==
  IF IsNaN(a) \/ IsNaN(b) THEN NaN
  ELSE IF IsInf(a)
    THEN (IF IsInf(b) THEN NaN ELSE Inf((a.sign + b.sign) % 2))
  ELSE IF IsInf(b) THEN Bits((a.sign + b.sign) % 2, 0 - 1074, 0, 0)
  ELSE IF IsZero(b)
    THEN (IF IsZero(a) THEN NaN ELSE Inf((a.sign + b.sign) % 2))
  ELSE IF IsZero(a) THEN Bits((a.sign + b.sign) % 2, 0 - 1074, 0, 0)
  ELSE DivTop[(a.sign + b.sign) % 2,
              Nrm[a.exp, a.hi, a.lo][1] - Nrm[b.exp, b.hi, b.lo][1] - 55,
              DivBits[Nrm[a.exp, a.hi, a.lo][2], Nrm[a.exp, a.hi, a.lo][3],
                      Nrm[b.exp, b.hi, b.lo][2], Nrm[b.exp, b.hi, b.lo][3],
                      28, 0],
              Nrm[b.exp, b.hi, b.lo]]

\* The i-th pair of bits, from the top, of the 54 bits h * W + l; zeros
\* follow them.
PairAt(h, l, i) ==
  IF i < 13 THEN (h \div 2^(24 - 2 * i)) % 4
  ELSE IF i < 27 THEN (l \div 2^(52 - 2 * i)) % 4
  ELSE 0

\* The 55 bits q of the square root of (h * W + l) * 2^56, at exponent e:
\* q holds the i bits known, r what is left of the bits taken so far with the
\* i-th pair appended; the next bit is 1 when 4q + 1 can be taken from r.
\* What is left of r at the end makes the value inexact.
SqrtBits[e \in Int, rh, rl, qh, ql, i, h, l \in Nat] ==
  IF i = 55 THEN Pack[0, e, qh, ql, IF rh # 0 \/ rl # 0 THEN 1 ELSE 0]
  ELSE IF rh < 4 * qh + (4 * ql + 1) \div W
          \/ (rh = 4 * qh + (4 * ql + 1) \div W /\ rl < (4 * ql + 1) % W)
    THEN SqrtBits[e, 4 * rh + (4 * rl + PairAt(h, l, i + 1)) \div W,
                  (4 * rl + PairAt(h, l, i + 1)) % W,
                  2 * qh + (2 * ql) \div W, (2 * ql) % W, i + 1, h, l]
  ELSE IF rl < (4 * ql + 1) % W
    THEN SqrtBits[e, 4 * (rh - (4 * qh + (4 * ql + 1) \div W) - 1)
                  + (4 * (rl - ((4 * ql + 1) % W) + W)
                     + PairAt(h, l, i + 1)) \div W,
                  (4 * (rl - ((4 * ql + 1) % W) + W)
                   + PairAt(h, l, i + 1)) % W,
                  2 * qh + (2 * ql + 1) \div W, (2 * ql + 1) % W, i + 1,
                  h, l]
  ELSE SqrtBits[e, 4 * (rh - (4 * qh + (4 * ql + 1) \div W))
                + (4 * (rl - ((4 * ql + 1) % W))
                   + PairAt(h, l, i + 1)) \div W,
                (4 * (rl - ((4 * ql + 1) % W)) + PairAt(h, l, i + 1)) % W,
                2 * qh + (2 * ql + 1) \div W, (2 * ql + 1) % W, i + 1, h, l]

\* The square root of (h * W + l) * 2^e, e even.
SqrtOf[e \in Int, h \in Nat, l \in Nat] ==
  SqrtBits[e \div 2 - 28, 0, PairAt(h, l, 0), 0, 0, 0, h, l]

\* The square root of n = <<exp, hi, lo>>, the exponent made even.
SqrtEven[n \in Seq(Int)] ==
  IF n[1] % 2 = 0 THEN SqrtOf[n[1], n[2], n[3]]
  ELSE SqrtOf[n[1] - 1, 2 * n[2] + (2 * n[3]) \div W, (2 * n[3]) % W]

\* math.Sqrt
Sqrt[a \in Float] ==
  IF IsNaN(a) THEN NaN
  ELSE IF IsZero(a) THEN a
  ELSE IF a.sign = 1 THEN NaN
  ELSE IF IsInf(a) THEN a
  ELSE SqrtEven[Nrm[a.exp, a.hi, a.lo]]

\* a < b
Lt[a \in Float, b \in Float] ==
  IF IsNaN(a) \/ IsNaN(b) THEN FALSE
  ELSE IF IsZero(a) /\ IsZero(b) THEN FALSE
  ELSE IF a.sign # b.sign THEN a.sign = 1
  ELSE IF a.sign = 0 THEN MagLt(a, b)
  ELSE MagLt(b, a)

\* a > b
Gt[a \in Float, b \in Float] == Lt[b, a]

\* a <= b
Le[a \in Float, b \in Float] ==
  IF IsNaN(a) \/ IsNaN(b) THEN FALSE
  ELSE (IsZero(a) /\ IsZero(b)) \/ a = b \/ Lt[a, b]

\* int(a), for |a| < 2^28
IntOf[a \in Float] ==
  (1 - 2 * a.sign) * Shifted[a.hi, a.lo, 0 - a.exp][2]

\* math.Ldexp
Ldexp[a \in Float, k \in Int] ==
  IF a.exp = 1024 \/ IsZero(a) THEN a
  ELSE Pack[a.sign, a.exp + k, a.hi, a.lo, 0]

\* The float64 of the decimal literal n * 10^x: the nearest to it.
Dec(n, x) ==
  IF x >= 0 THEN FromInt[n * 10^x] ELSE Quo[FromInt[n], FromInt[10^(0 - x)]]

\* y := 1 - ((lo - (r*c)/(2-c)) - hi); return Ldexp(y, k)
ExpY[hi \in Float, lo \in Float, k \in Int, r \in Float, c \in Float] ==
  Ldexp[Sub[One, Sub[Sub[lo, Quo[Mul[r, c], Sub[Two, c]]], hi]], k]

\* c := r - t*(P1+t*(P2+t*(P3+t*(P4+t*P5)))), with
\*   P1 =  1.66666666666666657415e-01, P2 = -2.77777777770155933842e-03,
\*   P3 =  6.61375632143793436117e-05, P4 = -1.65339022054652515390e-06,
\*   P5 =  4.13813679705723846039e-08
ExpPoly[hi \in Float, lo \in Float, k \in Int, r \in Float, t \in Float] ==
  ExpY[hi, lo, k, r,
       Sub[r, Mul[t, Add[Bits(0, 0 - 55, 22369621, 89478485),
                  Mul[t, Add[Bits(1, 0 - 61, 23860929, 113163667),
                      Mul[t, Add[Bits(0, 0 - 66, 18179754, 254139948),
                          Mul[t, Add[Bits(1, 0 - 72, 29086748, 97676273),
                              Mul[t, Bits(0, 0 - 77, 23295639,
                                          46048464)]]]]]]]]]]]

\* r := hi - lo; t := r * r
expmulti[hi \in Float, lo \in Float, k \in Int] ==
  ExpPoly[hi, lo, k, Sub[hi, lo], pow2[Sub[hi, lo]]]

\* hi := x - float64(k)*Ln2Hi; lo := float64(k) * Ln2Lo, with
\*   Ln2Hi = 6.93147180369123816490e-01, Ln2Lo = 1.90821492927058770002e-10
ExpReduced[x \in Float, k \in Int] ==
  expmulti[Sub[x, Mul[FromInt[k], Bits(0, 0 - 53, 23258159, 249561088)]],
           Mul[FromInt[k], Bits(0, 0 - 85, 27500275, 91831414)], k]

\* math.Exp, as exp.go computes it: Overflow = 7.09782712893383973096e+02,
\* Underflow = -7.45133219101941108420e+02, NearZero = 2^-28,
\* Log2e = 1.44269504088896338700e+00; k = int(Log2e*x - 0.5) when x < 0 and
\* int(Log2e*x + 0.5) when x > 0.
Exp[x \in Float] ==
  IF IsNaN(x) \/ x = Inf(0) THEN x
  ELSE IF x = Inf(1) THEN Zero
  ELSE IF Gt[x, Bits(0, 0 - 43, 23258159, 251279855)] THEN Inf(0)
  ELSE IF Lt[x, Bits(1, 0 - 43, 24416525, 86847569)] THEN Zero
  ELSE IF Lt[Bits(1, 0 - 80, 16777216, 0), x]
          /\ Lt[x, Bits(0, 0 - 80, 16777216, 0)]
    THEN Add[One, x]
  ELSE ExpReduced[x, IntOf[Add[Mul[Bits(0, 0 - 52, 24204406, 86737662), x],
                               Bits(x.sign, 0 - 53, 16777216, 0)]]]

\* return k*Ln2Hi - ((hfsq - (s*(hfsq+R) + k*Ln2Lo)) - f)
LogR[f \in Float, k \in Float, s \in Float, R \in Float, hfsq \in Float] ==
  Sub[Mul[k, Bits(0, 0 - 53, 23258159, 249561088)],
      Sub[Sub[hfsq, Add[Mul[s, Add[hfsq, R]],
                        Mul[k, Bits(0, 0 - 85, 27500275, 91831414)]]], f]]

\* t1 := s2 * (L1 + s4*(L3+s4*(L5+s4*L7))); t2 := s4 * (L2 + s4*(L4+s4*L6));
\* R := t1 + t2; hfsq := 0.5 * f * f, with
\*   L1 = 6.666666666666735130e-01, L2 = 3.999999999940941908e-01,
\*   L3 = 2.857142874366239149e-01, L4 = 2.222219843214978396e-01,
\*   L5 = 1.818357216161805012e-01, L6 = 1.531383769920937332e-01,
\*   L7 = 1.479819860511658591e-01
LogS4[f \in Float, k \in Float, s \in Float, s2 \in Float, s4 \in Float] ==
  LogR[f, k, s,
       Add[Mul[s2, Add[Bits(0, 0 - 53, 22369621, 89478547),
                   Mul[s4, Add[Bits(0, 0 - 54, 19173961, 69374809),
                       Mul[s4, Add[Bits(0, 0 - 55, 24405577, 113968094),
                           Mul[s4, Bits(0, 0 - 55, 19861805,
                                        255742532)]]]]]]],
           Mul[s4, Add[Bits(0, 0 - 54, 26843545, 160954884),
                   Mul[s4, Add[Bits(0, 0 - 55, 29826129, 227440815),
                       Mul[s4, Bits(0, 0 - 55, 20553885, 7915167)]]]]]],
       Mul[Mul[Half, f], f]]

\* s2 := s * s; s4 := s2 * s2
LogS[f \in Float, k \in Float, s \in Float] ==
  LogS4[f, k, s, pow2[s], pow2[pow2[s]]]

\* f := f1 - 1; k := float64(ki); s := f / (2 + f)
LogF[f \in Float, ki \in Int] == LogS[f, FromInt[ki], Quo[f, Add[Two, f]]]

\* f1, ki := Frexp(x); if f1 < Sqrt2/2 { f1 *= 2; ki-- }
LogReduced[f1 \in Float, ki \in Int] ==
  LogF[Sub[IF Lt[f1, Bits(0, 0 - 53, 23726566, 109001677)]
           THEN Mul[f1, Two] ELSE f1, One],
       IF Lt[f1, Bits(0, 0 - 53, 23726566, 109001677)] THEN ki - 1 ELSE ki]

\* math.Log, as log.go computes it
Log[x \in Float] ==
  IF IsNaN(x) \/ x = Inf(0) THEN x
  ELSE IF IsZero(x) THEN Inf(1)
  ELSE IF x.sign = 1 THEN NaN
  ELSE LogReduced[Bits(0, 0 - 53, Nrm[x.exp, x.hi, x.lo][2],
                       Nrm[x.exp, x.hi, x.lo][3]),
                  Nrm[x.exp, x.hi, x.lo][1] + 53]

\* math.Pi
Pi == Bits(0, 0 - 51, 26353589, 71576856)

\* The test x*y <= 0 of the refinement loop.
ProdLeZero(x, y) == Le[Mul[x, y], Zero]

(***************************************************************************)
(* r1: src/glicko.go:1-181.                                                *)
(***************************************************************************)
tau == Dec(5, 0 - 1)

scale == Dec(1737178, 0 - 4)

epsilon == Dec(1, 0 - 6)

calcPhi(deviation) == Quo[deviation, scale]

calcMu(rating) == Quo[Sub[rating, Dec(1500, 0)], scale]

calcG(phi) ==
  Quo[One, Sqrt[Add[One, Quo[Mul[Dec(3, 0), pow2[phi]], pow2[Pi]]]]]

calcE(mu, eMu, g) == Quo[One, Add[One, Exp[Mul[Neg[g], Sub[mu, eMu]]]]]

\* The Outcome literal NewOutcome returns.
OutcomeOf(eMu, phi, g, e, score) ==
  [mu |-> eMu, phi |-> phi, g |-> g, e |-> e, score |-> score]

NewOutcome_r1(rating, enemyRating, enemyDeviation, score) ==
  OutcomeOf(calcMu(enemyRating), calcPhi(enemyDeviation),
            calcG(calcPhi(enemyDeviation)),
            calcE(calcMu(rating), calcMu(enemyRating),
                  calcG(calcPhi(enemyDeviation))),
            score)

\* The loop  v += pow2(g) * e * (1 - e)  over outcomes[1..i].
RECURSIVE SumV(_, _)
SumV(outcomes, i) ==
  IF i = 0 THEN Zero
  ELSE Add[SumV(outcomes, i - 1),
           Mul[Mul[pow2[outcomes[i].g], outcomes[i].e],
               Sub[One, outcomes[i].e]]]

\* The loop  delta += g * (score - e)  over outcomes[1..i].
RECURSIVE SumD(_, _)
SumD(outcomes, i) ==
  IF i = 0 THEN Zero
  ELSE Add[SumD(outcomes, i - 1),
           Mul[outcomes[i].g, Sub[outcomes[i].score, outcomes[i].e]]]

calcV(outcomes) == Quo[One, SumV(outcomes, Len(outcomes))]

calcDelta(v, outcomes) == Mul[v, SumD(outcomes, Len(outcomes))]

\* left - right of f, given exp := math.Exp(x).
f_r1_exp[delta, phi, v, a, x, exp \in Float] ==
  Sub[Quo[Mul[exp, Sub[Sub[Sub[pow2[delta], pow2[phi]], v], exp]],
          Mul[Two, pow2[Add[Add[pow2[phi], v], exp]]]],
      Quo[Sub[x, a], pow2[tau]]]

f_r1(delta, phi, v, a, x) == f_r1_exp[delta, phi, v, a, x, Exp[x]]

(***************************************************************************)
(* r2: src/unnamed/part_001.                                               *)
(***************************************************************************)
\* g := 1 / math.Sqrt(1 + 3*pow2(enemyPhi)/pow2(math.Pi))
g_r2(enemyPhi) ==
  Quo[One, Sqrt[Add[One, Quo[Mul[Dec(3, 0), pow2[enemyPhi]], pow2[Pi]]]]]

NewOutcome_r2(mu, enemyMu, enemyPhi, score) ==
  OutcomeOf(enemyMu, enemyPhi, g_r2(enemyPhi),
            Quo[One, Add[One, Exp[Mul[Neg[g_r2(enemyPhi)],
                                      Sub[mu, enemyMu]]]]],
            score)

\* The return expression of f, given exp and tmp.
f_r2_tmp[Tau, delta, a, x, exp, tmp \in Float] ==
  Sub[Quo[Mul[exp, Sub[pow2[delta], tmp]], Mul[Two, pow2[tmp]]],
      Quo[Sub[x, a], pow2[Tau]]]

\* tmp := pow2(phi) - v - exp
f_r2_exp[Tau, phi, v, delta, a, x, exp \in Float] ==
  f_r2_tmp[Tau, delta, a, x, exp, Sub[Sub[pow2[phi], v], exp]]

\* The parameters in the order of the declaration: f(phi, v, delta, a, x).
f_r2(e, phi, v, delta, a, x) ==
  f_r2_exp[e.Tau, phi, v, delta, a, x, Exp[x]]

(***************************************************************************)
(* r3: src/glicko.go:183-414.                                              *)
(***************************************************************************)
Rating2Mu(c, rating) == Quo[Sub[rating, c.Rating], c.Factor]

Deviation2Phi(c, deviation) == Quo[deviation, c.Factor]

g(o) == Quo[One, Sqrt[Add[One, Quo[Mul[Dec(3, 0), pow2[o.Phi]], pow2[Pi]]]]]

e_r3(o, G, mu) == Quo[One, Add[One, Exp[Mul[Neg[G], Sub[mu, o.Mu]]]]]

\* The return expression of f, given exp and tmp.
f_r3_tmp[Tau, delta, a, x, exp, tmp \in Float] ==
  Sub[Quo[Mul[exp, Sub[pow2[delta], tmp]], Mul[Two, pow2[tmp]]],
      Quo[Sub[x, a], pow2[Tau]]]

\* tmp := pow2(phi) + v + exp
f_r3_exp[Tau, delta, phi, v, a, x, exp \in Float] ==
  f_r3_tmp[Tau, delta, a, x, exp, Add[Add[pow2[phi], v], exp]]

f_r3(e, delta, phi, v, a, x) ==
  f_r3_exp[e.Tau, delta, phi, v, a, x, Exp[x]]

\* One of Validate's three if / else if statements.
Clamp(x, min, max) ==
  IF Lt[x, min] THEN min ELSE IF Gt[x, max] THEN max ELSE x

\* Estimator.Validate, the same text in r2 and r3.
Validate(e, s) ==
  [Mu |-> Clamp(s.Mu, e.MinMu, e.MaxMu),
   Phi |-> Clamp(s.Phi, e.MinPhi, e.MaxPhi),
   Sigma |-> Clamp(s.Sigma, e.MinSigma, e.MaxSigma)]

(***************************************************************************)
(* The solver, sigmaPrime, one loop iteration at a time.  A frame holds    *)
(* the locals of the running call:                                         *)
(*   pc      "idle", or the line the call is at: "bracket" (B = a - k*Tau),*)
(*           "test" (the if of the bracket loop), "refine" (the head of    *)
(*           the refinement loop)                                          *)
(*   op      the entry point that was called last                          *)
(*   n       the number of outcomes it was handed                          *)
(*   o       the outcome r3's Estimate was handed                          *)
(*   mu, phi, sigma   the strength the solver was handed (Glicko-2 scale)  *)
(*   v, delta, sum    the aggregated evidence                              *)
(*   pf      periodFraction                                                *)
(*   a, A, B, fA, fB, k   sigmaPrime's locals                              *)
(*   es      the expected scores the aggregation read, one per outcome     *)
(*   s0      the caller's record when the call began                       *)
(*   entered the procedures the call has entered                           *)
(*   ret     what sigmaPrime returned                                      *)
(*   raw     Mu, Phi, Sigma as assigned, before any clamping               *)
(*   nval    how often the call ran Validate                               *)
(***************************************************************************)
\* type Evaluation struct (r1); type Strength, Outcome, Estimator struct
Evaluation == [Rating : Float, Deviation : Float, Volatility : Float]

Strength == [Mu : Float, Phi : Float, Sigma : Float]

Outcome == [Mu : Float, Phi : Float, Score : Float]

Estimator ==
  [MinMu : Float, MaxMu : Float, MinPhi : Float, MaxPhi : Float,
   MinSigma : Float, MaxSigma : Float, Tau : Float, Epsilon : Float]

\* The Estimator of a call; r1 has none.
Receiver == Estimator \cup {<< >>}

Revision == {"r1", "r2", "r3"}

Frame ==
  [pc : {"idle", "bracket", "test", "refine"}, op : STRING, n : Nat,
   o : Outcome \cup {<< >>}, mu : Float, phi : Float, sigma : Float,
   v : Float, delta : Float, sum : Float, pf : Float, a : Float, A : Float,
   B : Float, fA : Float, fB : Float, k : Float, es : Seq(Float),
   s0 : Strength \cup Evaluation \cup {<< >>},
   entered : SUBSET {"aggregate", "sigmaPrime"}, ret : Float,
   raw : Strength \cup Evaluation \cup {<< >>}, nval : Nat]

MaxCalls == 2

\* The call f(delta, phi, v, a, x) as each revision's sigmaPrime writes it;
\* r2 declares f(phi, v, delta, a, x) and is called with the same arguments.
F(rev, e, fr, x) ==
  CASE rev = "r1" -> f_r1(fr.delta, fr.phi, fr.v, fr.a, x)
    [] rev = "r2" -> f_r2(e, fr.delta, fr.phi, fr.v, fr.a, x)
    [] rev = "r3" -> f_r3(e, fr.delta, fr.phi, fr.v, fr.a, x)

TauOf(rev, e) == IF rev = "r1" THEN tau ELSE e.Tau

\* A := a; fA := f(A); fB := f(B): the three lines before the refinement loop.
StartRefine[rev \in Revision, e \in Receiver, fr \in Frame] ==
  [fr EXCEPT !.pc = "refine", !.A = fr.a, !.fA = F(rev, e, fr, fr.a),
             !.fB = F(rev, e, fr, fr.B)]

\* The if / else after  B := 0.0 , given a.
ChooseB[rev \in Revision, e \in Receiver, fr \in Frame] ==
  IF Gt[pow2[fr.delta], Add[pow2[fr.phi], fr.v]]
  THEN StartRefine[rev, e,
         [fr EXCEPT !.B = Log[Sub[Sub[pow2[fr.delta], pow2[fr.phi]], fr.v]]]]
  ELSE [fr EXCEPT !.pc = "bracket", !.k = One]

\* sigmaPrime from its first line to the first loop head it reaches.
EnterSolver[rev \in Revision, e \in Receiver, fr \in Frame] ==
  ChooseB[rev, e, [fr EXCEPT !.a = Log[pow2[fr.sigma]],
                             !.entered = fr.entered \cup {"sigmaPrime"}]]

\* B = a - k*Tau
BracketAssign(rev, e, fr) ==
  [fr EXCEPT !.pc = "test",
             !.B = Sub[fr.a, Mul[fr.k, TauOf(rev, e)]]]

\* k++
NextK(k) == Add[k, One]

\* if f(a - k*Tau) > 0 { break }; otherwise k++ and around again.
BracketTest(rev, e, fr) ==
  IF Gt[F(rev, e, fr, Sub[fr.a, Mul[fr.k, TauOf(rev, e)]]), Zero]
  THEN StartRefine[rev, e, fr]
  ELSE [fr EXCEPT !.pc = "bracket", !.k = NextK(fr.k)]

\* The condition of the refinement loop: math.Abs(B-A) > Epsilon.
Refining(rev, e, fr) ==
  Gt[Abs[Sub[fr.B, fr.A]], IF rev = "r1" THEN epsilon ELSE e.Epsilon]

\* The loop body with the test of its if turned round.
RefineAssign_turned(fr, C, fC) ==
  [fr EXCEPT !.A = IF ProdLeZero(fC, fr.fB) THEN fr.A ELSE fr.B,
             !.fA = IF ProdLeZero(fC, fr.fB) THEN Quo[fr.fA, Two]
                    ELSE fr.fB,
             !.B = C, !.fB = fC]

\* The if / else and the two assignments that end the loop body.
RefineAssign(fr, C, fC) ==
  [fr EXCEPT !.A = IF ProdLeZero(fC, fr.fB) THEN fr.B ELSE fr.A,
             !.fA = IF ProdLeZero(fC, fr.fB) THEN fr.fB
                    ELSE Quo[fr.fA, Two],
             !.B = C, !.fB = fC]

\* fC := f(delta, phi, v, a, C)
RefineWith[fr \in Frame, C \in Float, fC \in Float] == RefineAssign(fr, C, fC)

RefineAt[rev \in Revision, e \in Receiver, fr \in Frame, C \in Float] ==
  RefineWith[fr, C, F(rev, e, fr, C)]

\* One pass of the body of the refinement loop.
RefineStep(rev, e, fr) ==
  RefineAt[rev, e, fr,
           Add[fr.A, Quo[Mul[Sub[fr.A, fr.B], fr.fA], Sub[fr.fB, fr.fA]]]]

\* sigmaPrime with the exponential left out of its return statement.
SolverReturn_noExp(rev, fr) ==
  IF rev = "r3" THEN Quo[fr.A, Two] ELSE Quo[fr.a, Two]

\* The return statement of sigmaPrime: exp(A/2) in r3, exp(a/2) in r1 and r2.
SolverReturn(rev, fr) ==
  IF rev = "r3" THEN Exp[Quo[fr.A, Two]] ELSE Exp[Quo[fr.a, Two]]

(***************************************************************************)
(* The three entry points: what each does before the solver (Begin) and    *)
(* after it (Finish).  A Finish yields ret, raw, nval as in the frame and  *)
(* s, the caller's record when the entry point returns.                    *)
(***************************************************************************)
NoFrame ==
  [pc |-> "idle", op |-> "none", n |-> 0, o |-> << >>, mu |-> Zero,
   phi |-> Zero, sigma |-> Zero, v |-> Zero, delta |-> Zero, sum |-> Zero,
   pf |-> Zero, a |-> Zero, A |-> Zero, B |-> Zero, fA |-> Zero, fB |-> Zero,
   k |-> Zero, es |-> << >>, s0 |-> << >>, entered |-> {}, ret |-> Zero,
   raw |-> << >>, nval |-> 0]

\* The expected scores a list of r1 or r2 outcomes carries.
EsOf(outcomes) == [i \in 1..Len(outcomes) |-> outcomes[i].e]

\* 1 / math.Sqrt(1/pow2(phiStar) + 1/v), the new deviation of every revision.
NewPhi(phiStar, v) ==
  Quo[One, Sqrt[Add[Quo[One, pow2[phiStar]], Quo[One, v]]]]

\* EvaluatePlayer, steps 1 to 3 and the call of sigmaPrime.
Begin_r1(curr, outcomes) ==
  EnterSolver["r1", << >>,
    [NoFrame EXCEPT !.op = "EvaluatePlayer", !.n = Len(outcomes),
                    !.mu = calcMu(curr.Rating), !.phi = calcPhi(curr.Deviation),
                    !.sigma = curr.Volatility, !.v = calcV(outcomes),
                    !.delta = calcDelta(calcV(outcomes), outcomes),
                    !.es = EsOf(outcomes), !.s0 = curr,
                    !.entered = {"aggregate"}]]

\* EvaluatePlayer, step 7: the Evaluation returned.
Return_r1(Volatility, Deviation, Rating) ==
  [ret |-> Volatility,
   raw |-> [Rating |-> Rating, Deviation |-> Deviation,
            Volatility |-> Volatility],
   nval |-> 0,
   s |-> [Rating |-> Add[Mul[scale, Rating], Dec(1500, 0)],
          Deviation |-> Mul[Deviation, scale],
          Volatility |-> Volatility]]

\* EvaluatePlayer: the sum loop and curr.Rating, then step 7.
Rating_r1(fr, outcomes, Volatility, Deviation) ==
  Return_r1(Volatility, Deviation,
            Add[fr.mu, Mul[pow2[Deviation], SumD(outcomes, Len(outcomes))]])

\* EvaluatePlayer: steps 5 and 6, then the rest.
Deviation_r1(fr, outcomes, Volatility) ==
  Rating_r1(fr, outcomes, Volatility,
            NewPhi(Sqrt[Add[pow2[fr.phi], pow2[Volatility]]], fr.v))

\* EvaluatePlayer, steps 4 (the assignment) to 7.
Finish_r1(fr, outcomes) == Deviation_r1(fr, outcomes, SolverReturn("r1", fr))

\* The early return assigning the grown value to Sigma instead of Phi.
NoMatch_r2_toSigma(s) ==
  [s EXCEPT !.Sigma = Sqrt[Add[pow2[s.Phi], pow2[s.Sigma]]]]

\* r2's Estimate with no outcome: the early return.
NoMatch_r2(s) == [s EXCEPT !.Phi = Sqrt[Add[pow2[s.Phi], pow2[s.Sigma]]]]

\* r2's Estimate with outcomes, up to the call of sigmaPrime.
Begin_r2(e, s, outcomes) ==
  EnterSolver["r2", e,
    [NoFrame EXCEPT !.op = "Estimate", !.n = Len(outcomes), !.mu = s.Mu,
                    !.phi = s.Phi, !.sigma = s.Sigma,
                    !.v = Quo[One, SumV(outcomes, Len(outcomes))],
                    !.delta = Mul[SumD(outcomes, Len(outcomes)),
                                  Quo[One, SumV(outcomes, Len(outcomes))]],
                    !.sum = SumD(outcomes, Len(outcomes)),
                    !.es = EsOf(outcomes), !.s0 = s,
                    !.entered = {"aggregate"}]]

\* r2's Estimate returns: what it assigned is what the caller holds.
Return_r2(Sigma, Phi, Mu) ==
  [ret |-> Sigma, raw |-> [Mu |-> Mu, Phi |-> Phi, Sigma |-> Sigma],
   nval |-> 0, s |-> [Mu |-> Mu, Phi |-> Phi, Sigma |-> Sigma]]

\* r2: s.Mu = s.Mu + pow2(s.Phi)*tmp
Mu_r2(fr, Sigma, Phi) ==
  Return_r2(Sigma, Phi, Add[fr.mu, Mul[pow2[Phi], fr.sum]])

\* r2: phiStar and s.Phi
Phi_r2(fr, Sigma) ==
  Mu_r2(fr, Sigma, NewPhi(Sqrt[Add[pow2[fr.phi], pow2[Sigma]]], fr.v))

\* r2's Estimate from the assignment of s.Sigma to the end: no Validate.
Finish_r2(e, fr) == Phi_r2(fr, SolverReturn("r2", fr))

\* r3's Estimate: the call of sigmaPrime, given E, V and Delta.
Begin_r3_Delta(e, s, o, periodFraction, E, V, Delta) ==
  EnterSolver["r3", e,
    [NoFrame EXCEPT !.op = "Estimate", !.n = 1, !.o = o, !.mu = s.Mu,
                    !.phi = s.Phi, !.sigma = s.Sigma, !.v = V,
                    !.delta = Delta, !.pf = periodFraction, !.es = <<E>>,
                    !.s0 = s, !.entered = {"aggregate"}]]

\* Delta computed from the score alone, the expected score left out.
Begin_r3_V_noE(e, s, o, periodFraction, G, E, V) ==
  Begin_r3_Delta(e, s, o, periodFraction, E, V, Mul[Mul[V, G], o.Score])

\* Delta := V * G * (o.Score - E)
Begin_r3_V(e, s, o, periodFraction, G, E, V) ==
  Begin_r3_Delta(e, s, o, periodFraction, E, V,
                 Mul[Mul[V, G], Sub[o.Score, E]])

\* V := 1 / (pow2(G) * E * (1 - E))
Begin_r3_E(e, s, o, periodFraction, G, E) ==
  Begin_r3_V(e, s, o, periodFraction, G, E,
             Quo[One, Mul[Mul[pow2[G], E], Sub[One, E]]])

\* E := o.e(G, s.Mu)
Begin_r3_G(e, s, o, periodFraction, G) ==
  Begin_r3_E(e, s, o, periodFraction, G, e_r3(o, G, s.Mu))

\* r3's Estimate up to the call of sigmaPrime.
Begin_r3(e, s, o, periodFraction) ==
  Begin_r3_G(e, s, o, periodFraction, g(o))

\* e.Validate(s), the last statement of r3's Estimate.
Return_r3(e, raw) ==
  [ret |-> raw.Sigma, raw |-> raw, nval |-> 1, s |-> Validate(e, raw)]

\* The change of Mu taken off instead of added.
Mu_r3_minus(e, fr, Sigma, Phi) ==
  Return_r3(e, [Mu |-> Sub[fr.mu, Mul[pow2[Phi], Quo[fr.delta, fr.v]]],
                Phi |-> Phi, Sigma |-> Sigma])

\* r3: s.Mu = s.Mu + pow2(s.Phi)*(Delta/V)
Mu_r3(e, fr, Sigma, Phi) ==
  Return_r3(e, [Mu |-> Add[fr.mu, Mul[pow2[Phi], Quo[fr.delta, fr.v]]],
                Phi |-> Phi, Sigma |-> Sigma])

\* r3: phiStar and s.Phi
Phi_r3(e, fr, Sigma) ==
  Mu_r3(e, fr, Sigma,
        NewPhi(Sqrt[Add[pow2[fr.phi], Mul[pow2[Sigma], fr.pf]]], fr.v))

\* r3's Estimate from the assignment of s.Sigma to the end, Validate included.
Finish_r3[e \in Estimator, fr \in Frame] ==
  Phi_r3(e, fr, SolverReturn("r3", fr))

Finish(rev, e, fr, outcomes) ==
  CASE rev = "r1" -> Finish_r1(fr, outcomes)
    [] rev = "r2" -> Finish_r2(e, fr)
    [] rev = "r3" -> Finish_r3[e, fr]

(***************************************************************************)
(* The callers' inputs.                                                    *)
(***************************************************************************)
DefaultRating == Dec(1500, 0)

DefaultDeviation == Dec(350, 0)

DefaultVolatility == Dec(6, 0 - 2)

DefaultTau == Dec(75, 0 - 2)

DefaultTau_r2 == Dec(5, 0 - 1)

DefaultFactor == Dec(1737178, 0 - 4)

DefaultEpsilon == Dec(1, 0 - 6)

Conv ==
  [Rating |-> DefaultRating, Deviation |-> DefaultDeviation,
   Factor |-> DefaultFactor]

\* Opponents as the tests give them: rating, deviation, score.
Won(r, d) == [rating |-> Dec(r, 0), deviation |-> Dec(d, 0), score |-> One]

Lost(r, d) == [rating |-> Dec(r, 0), deviation |-> Dec(d, 0), score |-> Zero]

Drew(r, d) ==
  [rating |-> Dec(r, 0), deviation |-> Dec(d, 0), score |-> Half]

\* The outcome lists a caller of r1 or r2 builds; the second is the tests'.
Batches ==
  { << >>,
    <<Won(1400, 30), Lost(1550, 100), Lost(1700, 300)>>,
    <<Won(1550, 100)>>,
    <<Lost(1400, 30)>> }

\* r3's Outcome literal, as TestEstimate writes it.
Outcome_r3(raw) ==
  [Mu |-> Rating2Mu(Conv, raw.rating),
   Phi |-> Deviation2Phi(Conv, raw.deviation),
   Score |-> raw.score]

\* An opponent forty units of mu below the player, known exactly.
FarBelow == [Mu |-> Dec(0 - 40, 0), Phi |-> Zero, Score |-> One]

\* The (outcome, periodFraction) pairs a caller of r3 passes.
Calls_r3 ==
  { <<Outcome_r3(w), One>> :
      w \in {Won(1400, 30), Lost(1400, 30), Won(1500, 100), Lost(1500, 100),
             Won(1700, 300)} }
  \cup { <<Outcome_r3(Drew(1500, 100)), Half>> }

\* The player of the tests: rating 1500, deviation 200, volatility 0.06.
Player ==
  [Mu |-> Rating2Mu(Conv, Dec(1500, 0)),
   Phi |-> Deviation2Phi(Conv, Dec(200, 0)),
   Sigma |-> DefaultVolatility]

Player_r1 ==
  [Rating |-> Dec(1500, 0), Deviation |-> Dec(200, 0),
   Volatility |-> DefaultVolatility]

\* Estimators.  Wide: the bounds of the tests.
Wide(t) ==
  [MinMu |-> Rating2Mu(Conv, Dec(10, 0)),
   MaxMu |-> Rating2Mu(Conv, Dec(5000, 0)),
   MinPhi |-> Deviation2Phi(Conv, Dec(50, 0)),
   MaxPhi |-> Deviation2Phi(Conv, DefaultDeviation),
   MinSigma |-> Dec(4, 0 - 2), MaxSigma |-> Dec(8, 0 - 2), Tau |-> t,
   Epsilon |-> DefaultEpsilon]

\* Tight: bounds every update runs into.
Tight(t) ==
  [MinMu |-> Dec(0 - 3, 0 - 1), MaxMu |-> Dec(3, 0 - 1),
   MinPhi |-> Dec(9, 0 - 1), MaxPhi |-> One,
   MinSigma |-> Dec(59998, 0 - 6), MaxSigma |-> Dec(60002, 0 - 6), Tau |-> t,
   Epsilon |-> Dec(1, 0 - 3)]

\* Reversed: MinMu above MaxMu, which nothing in the package rejects.
Reversed ==
  [Tight(DefaultTau) EXCEPT !.MinMu = Dec(3, 0 - 1),
                            !.MaxMu = Dec(0 - 3, 0 - 1)]

\* Pinned: MinPhi = MaxPhi = 0, a configuration with min <= max.
Pinned == [Wide(DefaultTau) EXCEPT !.MinPhi = Zero, !.MaxPhi = Zero]

\* Open: no lower limit above zero on Phi and Sigma.
Open == [Wide(DefaultTau) EXCEPT !.MinPhi = Zero, !.MinSigma = Zero]

\* Raised: the lower limit of Mu above the Mu of a player yet to be rated.
Raised == [Wide(DefaultTau) EXCEPT !.MinMu = Dec(1, 0 - 1)]

Scenarios ==
  { [rev |-> "r1", e |-> << >>, s |-> Player_r1] }
  \cup { [rev |-> "r2", e |-> c, s |-> Player] :
           c \in {Wide(DefaultTau_r2), Tight(DefaultTau_r2)} }
  \cup { [rev |-> "r3", e |-> c, s |-> Player] :
           c \in {Wide(DefaultTau), Tight(Dec(12, 0 - 1)), Reversed, Pinned,
                  Open, Raised} }

(***************************************************************************)
(* r3's Estimate as a function of its arguments: the same steps, run to    *)
(* the end of the solver.                                                  *)
(***************************************************************************)
MaxSteps == 40

RunSolver[rv \in Revision, c \in Receiver, frame \in Frame, fuel \in Nat] ==
  IF fuel = 0 THEN frame
  ELSE IF frame.pc = "bracket"
       THEN RunSolver[rv, c, BracketAssign(rv, c, frame), fuel - 1]
  ELSE IF frame.pc = "test"
       THEN RunSolver[rv, c, BracketTest(rv, c, frame), fuel - 1]
  ELSE IF frame.pc = "refine" /\ Refining(rv, c, frame)
       THEN RunSolver[rv, c, RefineStep(rv, c, frame), fuel - 1]
  ELSE frame

\* The frame in which sigmaPrime returns, if it does within MaxSteps steps.
Solved(c, st, o, periodFraction) ==
  RunSolver["r3", c, Begin_r3(c, st, o, periodFraction), MaxSteps]

Halted(c, frame) == frame.pc = "refine" /\ ~Refining("r3", c, frame)

\* The Strength the caller holds after e.Estimate(&st, o, periodFraction).
EstimateOf(c, st, o, periodFraction) ==
  Finish_r3[c, Solved(c, st, o, periodFraction)]

\* The record after the i-th call of hist: hist lists, call by call, the
\* record that the calls made so far give when no other call is running.
Alone(st, hist, i) == IF i = 0 THEN st ELSE hist[i]

(***************************************************************************)
(* Two players' records, each updated by its own sequence of calls of r3's *)
(* Estimate, the calls of the one interleaved with those of the other.     *)
(***************************************************************************)
Players == {1, 2}

\* The (outcome, periodFraction) pairs the two callers pass.
PairCalls ==
  { <<Outcome_r3(Won(1400, 30)), One>>,
    <<Outcome_r3(Drew(1500, 100)), Half>> }

\* The record each caller owns before its first call.
Start(p) ==
  IF p = 1 THEN Player
  ELSE [Mu |-> Rating2Mu(Conv, Dec(1700, 0)),
        Phi |-> Deviation2Phi(Conv, Dec(300, 0)), Sigma |-> DefaultVolatility]

\* Nothing called yet: hist lists what the calls made on the record give, in
\* order, each made alone on the result of the one before.
Idle ==
  [p \in Players |-> [s |-> Start(p), fr |-> NoFrame, calls |-> 0,
                       hist |-> << >>]]

\* Every call writes the first record, whichever pointer it was given.
Target_first(p) == 1

\* The record that the pointer s of caller p's call designates: p's own.
Target(p) == p

\* Estimate reads s.Phi and s.Mu through the pointer after sigmaPrime has
\* returned, and the caller's record holds what Validate leaves in it.
Finish_pair(c, rec, frame) ==
  Finish_r3[c, [frame EXCEPT !.mu = rec.s.Mu, !.phi = rec.s.Phi]]

(***************************************************************************)
(* The calls that never return.  EvaluatePlayer with an empty list has     *)
(* v = 1/0 = +Inf and delta = v * 0 = NaN; r3's Estimate on FarBelow has    *)
(* E = 1/(1 + exp(-40)) = 1, V = 1/0 = +Inf and Delta = V * G * 0 = NaN.    *)
(* With delta NaN, pow2(delta) > pow2(phi) + v is false, the bracket loop  *)
(* is entered, f is NaN at every x and every test f(a - k*Tau) > 0 fails:  *)
(* the loop makes pass 1, 2, 3, ... and, from 2^53 on, where k + 1 rounds  *)
(* to k, the same pass again and again.                                    *)
(***************************************************************************)
Ahead == 3

\* The calls, each with the state in which its sigmaPrime reaches the loop.
Endless ==
  { [rev |-> "r1", e |-> << >>, s |-> Player_r1,
     fr |-> Begin_r1(Player_r1, << >>)] }
  \cup { [rev |-> "r3", e |-> c, s |-> Player,
           fr |-> Begin_r3(c, Player, FarBelow, One)] :
           c \in {Wide(DefaultTau), Tight(Dec(12, 0 - 1))} }

VARIABLES rev, e, s, outs, fr, calls, players

vars == <<rev, e, s, outs, fr, calls, players>>

pc == fr.pc

\* Either nothing has been called yet (the caller of EvaluatePlayer holding a
\* list of one outcome), or one of the calls that never return is under way
\* and stands at the head of pass 2^53 - Ahead of its bracket loop, B holding
\* what the pass before has assigned: the passes from the first to that one
\* are too many to be followed one by one, and all of them fail alike.
Init ==
  /\ \/ /\ \E sc \in Scenarios :
             /\ rev = sc.rev /\ e = sc.e /\ s = sc.s
             /\ outs = IF sc.rev = "r1"
                       THEN <<NewOutcome_r1(sc.s.Rating, Dec(1550, 0),
                                            Dec(100, 0), One)>>
                       ELSE << >>
        /\ fr = NoFrame
        /\ calls = 0
     \/ /\ \E sc \in Endless :
             /\ sc.fr.pc = "bracket" /\ IsNaN(sc.fr.delta)
             /\ rev = sc.rev /\ e = sc.e /\ s = sc.s
             /\ fr = [sc.fr EXCEPT
                       !.k = Sub[Ldexp[One, 53], Dec(Ahead, 0)],
                       !.B = Sub[sc.fr.a,
                                 Mul[Sub[Ldexp[One, 53], Dec(Ahead + 1, 0)],
                                     TauOf(sc.rev, sc.e)]]]
        /\ outs = << >>
        /\ calls = 1
  /\ players = Idle

\* The caller builds a list of outcomes against the player's current rating.
\* EvaluatePlayer's call with the empty list is among the Endless ones.
NewOutcomes ==
  /\ pc = "idle" /\ rev \in {"r1", "r2"} /\ calls < MaxCalls
  /\ \E b \in Batches \ (IF rev = "r1" THEN {<< >>} ELSE {}) :
       outs' = [i \in 1..Len(b) |->
                  IF rev = "r1"
                  THEN NewOutcome_r1(s.Rating, b[i].rating, b[i].deviation,
                                     b[i].score)
                  ELSE NewOutcome_r2(s.Mu, Rating2Mu(Conv, b[i].rating),
                                     Deviation2Phi(Conv, b[i].deviation),
                                     b[i].score)]
  /\ UNCHANGED <<rev, e, s, fr, calls, players>>

\* EvaluatePlayer(curr, outcomes) is called.
EvaluatePlayer ==
  /\ pc = "idle" /\ rev = "r1" /\ calls < MaxCalls
  /\ fr' = Begin_r1(s, outs)
  /\ calls' = calls + 1
  /\ UNCHANGED <<rev, e, s, outs, players>>

\* r2: e.Estimate(&s, outcomes) is called.
Estimate_r2 ==
  /\ pc = "idle" /\ rev = "r2" /\ calls < MaxCalls
  /\ IF Len(outs) = 0
     THEN /\ s' = NoMatch_r2(s)
          /\ fr' = [NoFrame EXCEPT !.op = "Estimate", !.n = Len(outs),
                                   !.s0 = s]
     ELSE /\ fr' = Begin_r2(e, s, outs)
          /\ s' = s
  /\ calls' = calls + 1
  /\ UNCHANGED <<rev, e, outs, players>>

\* r3: e.Estimate(&s, o, periodFraction) is called.
Estimate_r3 ==
  /\ pc = "idle" /\ rev = "r3" /\ calls < MaxCalls
  /\ \E c \in Calls_r3 : fr' = Begin_r3(e, s, c[1], c[2])
  /\ calls' = calls + 1
  /\ UNCHANGED <<rev, e, s, outs, players>>

\* The first statement of the body of the bracket loop.
Bracket ==
  /\ pc = "bracket"
  /\ fr' = BracketAssign(rev, e, fr)
  /\ UNCHANGED <<rev, e, s, outs, calls, players>>

\* The second statement of the body of the bracket loop.
Test ==
  /\ pc = "test"
  /\ fr' = BracketTest(rev, e, fr)
  /\ UNCHANGED <<rev, e, s, outs, calls, players>>

\* One iteration of the refinement loop.
Refine ==
  /\ pc = "refine" /\ Refining(rev, e, fr)
  /\ fr' = RefineStep(rev, e, fr)
  /\ UNCHANGED <<rev, e, s, outs, calls, players>>

\* The refinement loop ends; the entry point runs to its return.
Return ==
  /\ pc = "refine" /\ ~Refining(rev, e, fr)
  /\ \E r \in {Finish(rev, e, fr, outs)} :
       /\ s' = r.s
       /\ fr' = [fr EXCEPT !.pc = "idle", !.ret = r.ret, !.raw = r.raw,
                           !.nval = r.nval]
  /\ UNCHANGED <<rev, e, outs, calls, players>>

\* The caller runs e.Validate(&s) itself.
CallValidate ==
  /\ pc = "idle" /\ rev \in {"r2", "r3"}
  /\ s' = Validate(e, s)
  /\ fr' = [fr EXCEPT !.op = "Validate", !.s0 = s]
  /\ UNCHANGED <<rev, e, outs, calls, players>>

Next ==
  \/ NewOutcomes
  \/ EvaluatePlayer
  \/ Estimate_r2
  \/ Estimate_r3
  \/ Bracket
  \/ Test
  \/ Refine
  \/ Return
  \/ CallValidate

Spec == Init /\ [][Next]_vars

(***************************************************************************)
(* The state machine of the two callers.                                   *)
(***************************************************************************)
PairInit ==
  /\ rev = "r3"
  /\ e \in {Wide(DefaultTau), Tight(DefaultTau)}
  /\ s = Player
  /\ outs = << >>
  /\ fr = NoFrame
  /\ calls = 0
  /\ players = Idle

\* Caller p calls e.Estimate(&record, o, periodFraction).
Estimate_pair ==
  \E p \in Players :
    /\ players[p].fr.pc = "idle" /\ players[p].calls < MaxCalls
    /\ \E c \in PairCalls :
         players' = [players EXCEPT
                       ![p].fr = Begin_r3(e, players[Target(p)].s, c[1], c[2]),
                       ![p].calls = @ + 1,
                       ![p].hist =
                         Append(@, EstimateOf(e, Alone(Start(p), @, Len(@)),
                                              c[1], c[2]).s)]
    /\ UNCHANGED <<rev, e, s, outs, fr, calls>>

Bracket_pair ==
  \E p \in Players :
    /\ players[p].fr.pc = "bracket"
    /\ players' = [players EXCEPT ![p].fr = BracketAssign(rev, e, @)]
    /\ UNCHANGED <<rev, e, s, outs, fr, calls>>

Test_pair ==
  \E p \in Players :
    /\ players[p].fr.pc = "test"
    /\ players' = [players EXCEPT ![p].fr = BracketTest(rev, e, @)]
    /\ UNCHANGED <<rev, e, s, outs, fr, calls>>

Refine_pair ==
  \E p \in Players :
    /\ players[p].fr.pc = "refine" /\ Refining(rev, e, players[p].fr)
    /\ players' = [players EXCEPT ![p].fr = RefineStep(rev, e, @)]
    /\ UNCHANGED <<rev, e, s, outs, fr, calls>>

Return_pair ==
  \E p \in Players :
    /\ players[p].fr.pc = "refine" /\ ~Refining(rev, e, players[p].fr)
    /\ \E r \in {Finish_pair(e, players[Target(p)], players[p].fr)} :
         players' = [players EXCEPT
                       ![p].fr = [@ EXCEPT !.pc = "idle", !.ret = r.ret,
                                           !.raw = r.raw, !.nval = r.nval],
                       ![Target(p)].s = r.s]
    /\ UNCHANGED <<rev, e, s, outs, fr, calls>>

PairNext ==
  \/ Estimate_pair
  \/ Bracket_pair
  \/ Test_pair
  \/ Refine_pair
  \/ Return_pair

PairSpec == PairInit /\ [][PairNext]_vars

\* The running call is never suspended: a loop that can take a step does.
FairSpec == Spec /\ WF_vars(Bracket \/ Test \/ Refine \/ Return)

(***************************************************************************)
(* Vocabulary of the properties.                                           *)
(***************************************************************************)
\* The bracket loop of a call whose delta is not NaN is left by its third
\* pass.  In a call whose delta is NaN, f is NaN at the x of the first
\* passes, of pass 10^6 and of pass 2^40 as it is at the x of the pass the
\* loop is in, and the test fails there.
BracketBound ==
  /\ (pc \in {"bracket", "test"} /\ ~IsNaN(fr.delta)) => Le[fr.k, Dec(3, 0)]
  /\ (pc \in {"bracket", "test"} /\ IsNaN(fr.delta))
     => \A k \in {One, Two, Dec(3, 0), Dec(1, 6), Ldexp[One, 40], fr.k} :
          /\ IsNaN(F(rev, e, fr, Sub[fr.a, Mul[k, TauOf(rev, e)]]))
          /\ BracketTest(rev, e, [fr EXCEPT !.k = k]).pc = "bracket"
  /\ \A p \in Players :
       players[p].fr.pc \in {"bracket", "test"}
       => Le[players[p].fr.k, Dec(3, 0)]

\* An entry point has returned and nothing has been called since.
Returned == pc = "idle" /\ fr.op \in {"EvaluatePlayer", "Estimate"}

\* Every lower limit is at most its upper limit.
Ordered(c) ==
  /\ Le[c.MinMu, c.MaxMu] /\ Le[c.MinPhi, c.MaxPhi]
  /\ Le[c.MinSigma, c.MaxSigma]

InBounds(c, st) ==
  /\ Le[c.MinMu, st.Mu] /\ Le[st.Mu, c.MaxMu]
  /\ Le[c.MinPhi, st.Phi] /\ Le[st.Phi, c.MaxPhi]
  /\ Le[c.MinSigma, st.Sigma] /\ Le[st.Sigma, c.MaxSigma]

\* The same game with the other result.
Mirror(o) == [o EXCEPT !.Score = Sub[One, o.Score]]

\* The expected score of outcome i of the running call, from the Mu the
\* caller's record held when the call began.
CurrentE(i) ==
  CASE rev = "r1" -> calcE(calcMu(fr.s0.Rating), outs[i].mu, outs[i].g)
    [] rev = "r2" -> calcE(fr.s0.Mu, outs[i].mu, outs[i].g)
    [] rev = "r3" -> e_r3(fr.o, g(fr.o), fr.s0.Mu)

(***************************************************************************)
(* The properties.                                                         *)
(***************************************************************************)

\* C1 (as stated): after Estimate returns, in either revision that has an
\* Estimator and for whatever limits are configured, Mu, Phi and Sigma lie
\* within their limits.
BoundedAfterEstimate ==
  (rev \in {"r2", "r3"} /\ Returned) => InBounds(e, s)

NoMatchMonotone ==
  (rev = "r2" /\ fr.op = "Estimate" /\ fr.n = 0)
  => /\ pc = "idle"
     /\ fr.entered = {}
     /\ s.Mu = fr.s0.Mu
     /\ s.Sigma = fr.s0.Sigma
     /\ (Gt[fr.s0.Sigma, Zero] => Gt[s.Phi, fr.s0.Phi])

\* C3, its case: r2's Estimate has returned from a call with an empty list
\* on a Strength with positive Sigma.
NoMatchReturned ==
  /\ rev = "r2" /\ Returned /\ fr.n = 0 /\ calls > 0
  /\ Gt[fr.s0.Sigma, Zero] /\ Gt[s.Phi, fr.s0.Phi]

\* C4 (as stated): in EvaluatePlayer and in r2's Estimate a list of zero
\* outcomes skips the aggregation, so 1 / (empty sum) is never evaluated, and
\* the call returns the rating and the volatility it was given.
EmptyListSkipsAggregation ==
  (rev \in {"r1", "r2"} /\ fr.op \in {"EvaluatePlayer", "Estimate"} /\ fr.n = 0)
  => /\ "aggregate" \notin fr.entered
     /\ pc = "idle"
     /\ (rev = "r1" => /\ s.Rating = fr.s0.Rating
                       /\ s.Volatility = fr.s0.Volatility)
     /\ (rev = "r2" => s.Mu = fr.s0.Mu /\ s.Sigma = fr.s0.Sigma)

\* C5 (as stated): in every revision, what sigmaPrime returns is exp(A/2)
\* for the endpoint A with which the refinement loop ended.
ReturnsExpOfA ==
  (Returned /\ "sigmaPrime" \in fr.entered) => fr.ret = Exp[Quo[fr.A, Two]]

\* C6 (as stated): a call of r3's sigmaPrime that is in its bracket loop
\* leaves it after a bounded number of passes, by the break or by giving the
\* computation up as failed: it does not stay in the loop for ever.
BracketLoopExits ==
  (rev = "r3" /\ pc = "bracket") ~> (pc \notin {"bracket", "test"})

\* C7 (as stated): for a Strength within the limits, with Tau > 0 and
\* Epsilon > 0, every call of r3's sigmaPrime terminates, and with
\* |B - A| <= Epsilon.
SolverTerminates ==
  (rev = "r3" /\ "sigmaPrime" \in fr.entered /\ pc # "idle"
   /\ InBounds(e, fr.s0) /\ Gt[e.Tau, Zero] /\ Gt[e.Epsilon, Zero])
  ~> (pc = "idle" /\ ~Refining(rev, e, fr))

ValidateOnceAtTheEnd ==
  (rev \in {"r2", "r3"} /\ Returned /\ fr.n > 0)
  => /\ fr.nval = 1
     /\ fr.raw.Sigma = fr.ret
     /\ fr.raw.Phi
          = NewPhi(Sqrt[Add[pow2[fr.s0.Phi],
                            IF rev = "r3" THEN Mul[pow2[fr.raw.Sigma], fr.pf]
                            ELSE pow2[fr.raw.Sigma]]], fr.v)
     /\ fr.raw.Mu
          = Add[fr.s0.Mu, Mul[pow2[fr.raw.Phi],
                              IF rev = "r3" THEN Quo[fr.delta, fr.v]
                              ELSE fr.sum]]
     /\ s.Mu = Clamp(fr.raw.Mu, e.MinMu, e.MaxMu)
     /\ s.Phi = Clamp(fr.raw.Phi, e.MinPhi, e.MaxPhi)
     /\ s.Sigma = Clamp(fr.raw.Sigma, e.MinSigma, e.MaxSigma)

\* C10 (as stated): the expected score every outcome of a call is weighed
\* with is the one computed from the Mu the Strength has when the call
\* begins.
ExpectedScoreFromCurrentMu ==
  (pc # "idle") => \A i \in 1..Len(fr.es) : fr.es[i] = CurrentE(i)

\* C11: whatever the interleaving of the two callers' calls of Estimate on
\* their two records, a caller whose call has returned holds the value that
\* its own calls, made alone in the same order, give; and while a call runs
\* the record still holds the value of the calls before it.
IndependentUpdates ==
  \A p \in Players :
    players[p].s
      = Alone(Start(p), players[p].hist,
              IF players[p].fr.pc = "idle" THEN Len(players[p].hist)
              ELSE Len(players[p].hist) - 1)

\* C11, its case: both callers have made two calls and both records were
\* moved; the first caller's calls have returned while the second call of
\* the other is still inside the refinement loop.
InterleavedReturned ==
  /\ \A p \in Players :
       /\ players[p].calls = 2 /\ players[p].s # Start(p)
  /\ players[1].fr.pc = "idle"
  /\ players[2].fr.pc = "refine" /\ players[2].fr.A # players[2].fr.a

\* C12: every pass of the refinement loop of r3's sigmaPrime that starts
\* with fA * fB <= 0 ends with fA * fB <= 0; the pass sets B, fB to C, fC,
\* and sets A, fA to the old B, fB when fC * fB <= 0 and otherwise leaves A
\* and halves fA.
BracketPreserved ==
  [][(rev = "r3" /\ pc = "refine" /\ fr'.pc = "refine" /\ fr' # fr)
     => /\ ProdLeZero(fr.fA, fr.fB) => ProdLeZero(fr'.fA, fr'.fB)
        /\ fr'.B = Add[fr.A, Quo[Mul[Sub[fr.A, fr.B], fr.fA],
                              Sub[fr.fB, fr.fA]]]
        /\ fr'.fB = F(rev, e, fr, fr'.B)
        /\ IF ProdLeZero(fr'.fB, fr.fB)
           THEN fr'.A = fr.B /\ fr'.fA = fr.fB
           ELSE fr'.A = fr.A /\ fr'.fA = Quo[fr.fA, Two]]_vars

\* C12, its case: the loop of r3 has replaced A by an old B at least once
\* and stands at its head with fA and fB of strictly opposite signs.
BracketMoved ==
  /\ rev = "r3" /\ pc = "refine" /\ fr.A # fr.a
  /\ fr.fA # Zero /\ fr.fB # Zero /\ ProdLeZero(fr.fA, fr.fB)

\* C13 (as stated): in every revision, the value sigmaPrime holds as fB at
\* the head of its refinement loop is the value at B of
\*   exp(x)*(delta^2 - phi^2 - v - exp(x)) / (2*(phi^2 + v + exp(x))^2)
\*     - (x - a)/tau^2
\* for the delta, phi and v of the call, whatever the order in which the
\* float64 operations are made (to one part in 10^9).
SameInnerFunction ==
  (pc = "refine")
  => \/ fr.fB
          = f_r3([Tau |-> TauOf(rev, e)], fr.delta, fr.phi, fr.v, fr.a, fr.B)
     \/ Le[Abs[Sub[fr.fB, f_r3([Tau |-> TauOf(rev, e)], fr.delta, fr.phi,
                                 fr.v, fr.a, fr.B)]],
            Mul[Dec(1, 0 - 9), Add[One, Abs[fr.fB]]]]

\* C14: when r3's Estimate returns from a call made on a Strength within
\* limits that have min <= max, with an expected score strictly between 0
\* and 1, a won game has not lowered Mu and a lost game has not raised it,
\* Validate's clamping included.
ResultDirection ==
  (/\ rev = "r3" /\ Returned /\ Ordered(e) /\ InBounds(e, fr.s0)
   /\ Gt[fr.es[1], Zero] /\ Lt[fr.es[1], One])
  => /\ (fr.o.Score = One => Le[fr.s0.Mu, s.Mu])
     /\ (fr.o.Score = Zero => Le[s.Mu, fr.s0.Mu])

\* C14, its case: a lost game on a Strength within the limits has lowered
\* Mu, and Validate has moved the computed Mu to a limit.
LostAndClamped ==
  /\ rev = "r3" /\ Returned /\ Ordered(e) /\ InBounds(e, fr.s0)
  /\ Gt[fr.es[1], Zero] /\ Lt[fr.es[1], One]
  /\ fr.o.Score = Zero /\ s.Mu # fr.raw.Mu /\ Lt[s.Mu, fr.s0.Mu]

====
